---- MODULE Spec2Model ----
(***************************************************************************)
(* A model of the MYCIN inference engine of cs2821-mycin                   *)
(* (src/mycin_inference_engine.py) and of the rule-probability step of the *)
(* medical pipeline (src/mycin_medical_pipeline.py).                       *)
(*                                                                         *)
(* Certainty factors are Python floats in the program.  They are modelled  *)
(* as exact rationals <<n, d>> in lowest terms with d > 0, so equalities   *)
(* such as 0.8 + 0.7*(1 - 0.8) = 0.94 are exact here and hold up to        *)
(* rounding in the program.                                                *)
(***************************************************************************)
EXTENDS Integers, Sequences, FiniteSets, TLC

(***************************************************************************)
(* Exact rational arithmetic                                               *)
(***************************************************************************)
Abs(x) == IF x < 0 THEN -x ELSE x

\* the element of a one-element set; { F(x) : x \in {e} } names the value of e
Only(S) == CHOOSE x \in S : TRUE

RECURSIVE Gcd(_, _)
Gcd(a, b) == IF b = 0 THEN a ELSE Gcd(b, a % b)

\* the rational n/d (d # 0) in lowest terms with a positive denominator
Rat(n, d) ==
    LET g == Gcd(Abs(n), Abs(d))
        s == IF d < 0 THEN -1 ELSE 1
    IN  <<(s * n) \div g, (s * d) \div g>>

Zero == Rat(0, 1)
One == Rat(1, 1)

\* the operations divide by common factors before they multiply, which
\* keeps the intermediate integers small
RAdd(a, b) ==
    LET g == Gcd(a[2], b[2])
    IN  Rat(a[1] * (b[2] \div g) + b[1] * (a[2] \div g), (a[2] \div g) * b[2])
RNeg(a) == <<-a[1], a[2]>>
RSub(a, b) == RAdd(a, RNeg(b))
RMul(a, b) ==
    LET g1 == Gcd(Abs(a[1]), b[2])
        g2 == Gcd(Abs(b[1]), a[2])
    IN  Rat((a[1] \div g1) * (b[1] \div g2), (a[2] \div g2) * (b[2] \div g1))
RDiv(a, b) == RMul(a, Rat(b[2], b[1]))
RLt(a, b) ==
    LET g == Gcd(a[2], b[2])
    IN  a[1] * (b[2] \div g) < b[1] * (a[2] \div g)
RLe(a, b) ==
    LET g == Gcd(a[2], b[2])
    IN  a[1] * (b[2] \div g) <= b[1] * (a[2] \div g)
RAbs(a) == <<Abs(a[1]), a[2]>>
RMin(a, b) == IF RLe(a, b) THEN a ELSE b
RMax(a, b) == IF RLe(a, b) THEN b ELSE a

RECURSIVE RSum(_)
RSum(s) == IF s = <<>> THEN Zero ELSE RAdd(Head(s), RSum(Tail(s)))

RECURSIVE RMinSeq(_)
RMinSeq(s) == IF Len(s) = 1 THEN s[1] ELSE RMin(Head(s), RMinSeq(Tail(s)))

\* the outcome of a float division by zero: Python raises ZeroDivisionError
ZeroDivisionError == <<0, 0>>

(***************************************************************************)
(* CertaintyFactor constants of the rule module                            *)
(***************************************************************************)
STRONG_SUGGESTIVE == Rat(8, 10)
SUGGESTIVE == Rat(7, 10)
WEAKLY_SUGGESTIVE == Rat(4, 10)

\* Python's None
None == "None"

(***************************************************************************)
(* MYCINInferenceEngine.combine_certainties                                *)
(***************************************************************************)
\* combine_certainties dividing by 1 - |cf1| when the signs differ
combine_certainties_dividing_by_first(cf1, cf2) ==
    IF RLe(Zero, cf1) /\ RLe(Zero, cf2)
    THEN RAdd(cf1, RMul(cf2, RSub(One, cf1)))
    ELSE IF RLt(cf1, Zero) /\ RLt(cf2, Zero)
    THEN RAdd(cf1, RMul(cf2, RAdd(One, cf1)))
    ELSE IF RSub(One, RAbs(cf1)) = Zero
    THEN ZeroDivisionError
    ELSE RDiv(RAdd(cf1, cf2), RSub(One, RAbs(cf1)))

\* combine_certainties adding the two certainties, nothing scaled
combine_certainties_adding(cf1, cf2) == RAdd(cf1, cf2)

\* combine_certainties weighting the second certainty by itself
combine_certainties_weighting_by_second(cf1, cf2) ==
    IF RLe(Zero, cf1) /\ RLe(Zero, cf2)
    THEN RAdd(cf1, RMul(cf2, RSub(One, cf2)))
    ELSE IF RLt(cf1, Zero) /\ RLt(cf2, Zero)
    THEN RAdd(cf1, RMul(cf2, RAdd(One, cf1)))
    ELSE IF RSub(One, RMin(RAbs(cf1), RAbs(cf2))) = Zero
    THEN ZeroDivisionError
    ELSE RDiv(RAdd(cf1, cf2), RSub(One, RMin(RAbs(cf1), RAbs(cf2))))

combine_certainties(cf1, cf2) ==
    IF RLe(Zero, cf1) /\ RLe(Zero, cf2)
    THEN RAdd(cf1, RMul(cf2, RSub(One, cf1)))
    ELSE IF RLt(cf1, Zero) /\ RLt(cf2, Zero)
    THEN RAdd(cf1, RMul(cf2, RAdd(One, cf1)))
    ELSE IF RSub(One, RMin(RAbs(cf1), RAbs(cf2))) = Zero
    THEN ZeroDivisionError
    ELSE RDiv(RAdd(cf1, cf2), RSub(One, RMin(RAbs(cf1), RAbs(cf2))))

(***************************************************************************)
(* The fact store: known_facts is a Python dict parameter -> Fact; it is   *)
(* modelled as the sequence of its Facts in insertion order.               *)
(***************************************************************************)
Fact(parameter, value, certainty, source_rules) ==
    [parameter |-> parameter, value |-> value,
     certainty |-> certainty, source_rules |-> source_rules]

\* index of the entry for parameter in the dict, 0 when there is none
IndexOf(facts, parameter) ==
    IF \E i \in 1..Len(facts) : facts[i].parameter = parameter
    THEN CHOOSE i \in 1..Len(facts) : facts[i].parameter = parameter
    ELSE 0

\* MYCINInferenceEngine.get_fact: the Fact, or None
get_fact(facts, parameter) ==
    IF IndexOf(facts, parameter) = 0 THEN None
    ELSE facts[IndexOf(facts, parameter)]

SourceList(source_rule) == IF source_rule = None THEN <<>> ELSE <<source_rule>>

\* set_fact raises when combine_certainties divides by zero
set_fact_raises(facts, parameter, value, certainty) ==
    /\ IndexOf(facts, parameter) # 0
    /\ facts[IndexOf(facts, parameter)].value = value
    /\ combine_certainties(facts[IndexOf(facts, parameter)].certainty, certainty)
         = ZeroDivisionError

\* set_fact that adds an entry whatever the dict holds
set_fact_appending(facts, parameter, value, certainty, source_rule) ==
    Append(facts, Fact(parameter, value, certainty, SourceList(source_rule)))

\* set_fact that replaces the entry of the parameter, nothing combined
set_fact_overwriting(facts, parameter, value, certainty, source_rule) ==
    LET i == IndexOf(facts, parameter)
    IN  IF i # 0
        THEN [facts EXCEPT ![i] = Fact(parameter, value, certainty, SourceList(source_rule))]
        ELSE Append(facts, Fact(parameter, value, certainty, SourceList(source_rule)))

\* MYCINInferenceEngine.set_fact (when it does not raise): the dict after the call
set_fact(facts, parameter, value, certainty, source_rule) ==
    LET i == IndexOf(facts, parameter)
    IN  IF i # 0
        THEN LET existing == facts[i]
             IN  IF existing.value = value
                 THEN [facts EXCEPT ![i] =
                          Fact(parameter, value,
                               combine_certainties(existing.certainty, certainty),
                               existing.source_rules \o SourceList(source_rule))]
                 ELSE IF RLt(existing.certainty, certainty)
                      THEN [facts EXCEPT ![i] =
                               Fact(parameter, value, certainty, SourceList(source_rule))]
                      ELSE facts
        ELSE Append(facts, Fact(parameter, value, certainty, SourceList(source_rule)))

(***************************************************************************)
(* Rules.  A condition is [parameter, operator, value]; a conclusion is    *)
(* the dict of a rule as the sequence of its (key, value) items.           *)
(***************************************************************************)
RuleCondition(parameter, operator, value) ==
    [parameter |-> parameter, operator |-> operator, value |-> value]

Rule(rule_id, conditions, conclusion, certainty_factor) ==
    [rule_id |-> rule_id, conditions |-> conditions,
     conclusion |-> conclusion, certainty_factor |-> certainty_factor]

\* rules of the static rule bases (mycin_rules, mycin_medical_rules)
R037 == Rule("R037",
             <<RuleCondition("gram_stain", "is", "positive"),
               RuleCondition("morphology", "is", "coccus"),
               RuleCondition("growth_pattern", "is", "chains")>>,
             <<<<"identity", "streptococcus">>>>, SUGGESTIVE)

R201 == Rule("R201",
             <<RuleCondition("identity", "is", "streptococcus"),
               RuleCondition("allergy_penicillin", "is", "True")>>,
             <<<<"recommended_drug", "vancomycin">>, <<"dose", "standard">>>>,
             STRONG_SUGGESTIVE)

R301 == Rule("R301",
             <<RuleCondition("immunocompromised", "is", "True")>>,
             <<<<"treatment_approach", "broad_spectrum">>>>, SUGGESTIVE)

ANAPHYL003 == Rule("ANAPHYL003",
                   <<RuleCondition("allergy_exposure", "is", "True"),
                     RuleCondition("inability_to_breathe", "is", "True")>>,
                   <<<<"diagnosis", "Anaphylaxis">>>>, STRONG_SUGGESTIVE)

\* rules as the pipeline builds them from generated rule data: any
\* conditions, one diagnosis, a certainty factor clamped to [0.2, 0.8]
DYNAMIC1 == Rule("DYNAMIC1",
                 <<RuleCondition("allergy_exposure", "is", "True")>>,
                 <<<<"diagnosis", "Anaphylaxis">>>>, SUGGESTIVE)

DYNAMIC2 == Rule("DYNAMIC2",
                 <<RuleCondition("diagnosis", "is", "Anaphylaxis")>>,
                 <<<<"diagnosis", "Anaphylaxis">>>>, Rat(1, 2))

\* rules a caller assembles that depend on each other in a cycle
CYCLE1 == Rule("CYCLE1",
               <<RuleCondition("swelling", "is", "True")>>,
               <<<<"diagnosis", "Anaphylaxis">>>>, STRONG_SUGGESTIVE)

CYCLE2 == Rule("CYCLE2",
               <<RuleCondition("diagnosis", "is_not", "GERD")>>,
               <<<<"swelling", "True">>>>, SUGGESTIVE)

\* the rule lists ALL_RULES can hold: part of the static base, an augmented
\* list with a self-referential rule, and a list with a cycle of two rules
RuleBases ==
    { <<R201, R301>>,
      <<ANAPHYL003, DYNAMIC1, DYNAMIC2>>,
      <<CYCLE1, CYCLE2>> }

(***************************************************************************)
(* Condition and rule evaluation                                           *)
(***************************************************************************)
\* float(v): the values Python converts to a number, and what it gives
FloatTable == [True |-> 1, False |-> 0, two |-> 2]
CanFloat(v) == v \in DOMAIN FloatTable
FloatOf(v) == FloatTable[v]

\* float(v) raises OverflowError for an int too large for a float; the
\* except clauses of evaluate_condition name ValueError and TypeError only
HugeInts == {"10**400"}
FloatOverflows(v) == v \in HugeInts

NumericOperators ==
    {"greater_than", "less_than", "greater_than_or_equal", "less_than_or_equal"}

\* the operator test of evaluate_condition raising: float(actual_value) is
\* evaluated first, and a ValueError or TypeError of it ends the test before
\* float(expected_value)
CompareRaises(operator, actual_value, expected_value) ==
    /\ operator \in NumericOperators
    /\ \/ FloatOverflows(actual_value)
       \/ CanFloat(actual_value) /\ FloatOverflows(expected_value)

\* the value of the operator test of evaluate_condition
Satisfied(operator, actual_value, expected_value) ==
    LET numeric == CanFloat(actual_value) /\ CanFloat(expected_value)
    IN  CASE operator = "is" -> actual_value = expected_value
          [] operator = "is_not" -> actual_value # expected_value
          [] operator = "greater_than" ->
                numeric /\ FloatOf(actual_value) > FloatOf(expected_value)
          [] operator = "less_than" ->
                numeric /\ FloatOf(actual_value) < FloatOf(expected_value)
          [] operator = "greater_than_or_equal" ->
                numeric /\ FloatOf(actual_value) >= FloatOf(expected_value)
          [] operator = "less_than_or_equal" ->
                numeric /\ FloatOf(actual_value) <= FloatOf(expected_value)
          [] OTHER -> FALSE

\* self.llm_qa_fn(question_key, patient_data) is called with nothing around
\* it that catches: when the function raises, ask_llm_question raises
ask_llm_question_raises(has_fn, result) == has_fn /\ result.shape = "raises"

\* What the question-answering function returns: a tuple (answer, certainty),
\* a dict with an answer and perhaps a certainty, or a bare answer.
\* MYCINInferenceEngine.ask_llm_question turns it into (answer, certainty);
\* without a function the answer is (None, 0.0).
ask_llm_question(has_fn, result) ==
    IF has_fn
    THEN CASE result.shape = "tuple" -> <<result.answer, result.certainty>>
           [] result.shape = "dict" ->
                <<result.answer,
                  IF result.has_certainty THEN result.certainty ELSE One>>
           [] OTHER -> <<result.answer, One>>
    ELSE <<None, Zero>>

\* MYCINInferenceEngine.evaluate_condition on the dict facts, with result the
\* value the question-answering function returns if it is called:
\* [satisfied, certainty, facts (the dict afterwards), asked (whether the
\* question-answering function was called), raised (whether that call or
\* the operator test raised)]
evaluate_condition(facts, has_fn, condition, patient_data, result) ==
    LET param == condition.parameter
        isKnown == IndexOf(facts, param) # 0
        inData == ~isKnown /\ param \in DOMAIN patient_data
        asks == ~isKnown /\ ~inData
        reply == ask_llm_question(has_fn, result)
        stored == IF asks /\ reply[1] # None
                  THEN set_fact(facts, param, reply[1], reply[2], None)
                  ELSE facts
        fact == IF isKnown THEN get_fact(facts, param)
                ELSE IF inData THEN Fact(param, patient_data[param], One, <<>>)
                ELSE Fact(param, reply[1], reply[2], <<>>)
        sat == Satisfied(condition.operator, fact.value, condition.value)
    IN  IF asks /\ ask_llm_question_raises(has_fn, result)
        THEN [satisfied |-> FALSE, certainty |-> Zero, facts |-> facts,
              asked |-> TRUE, raised |-> TRUE]
        ELSE IF asks /\ reply[1] = None
        THEN [satisfied |-> FALSE, certainty |-> Zero, facts |-> facts,
              asked |-> has_fn, raised |-> FALSE]
        ELSE IF CompareRaises(condition.operator, fact.value, condition.value)
        THEN [satisfied |-> FALSE, certainty |-> Zero, facts |-> stored,
              asked |-> asks /\ has_fn, raised |-> TRUE]
        ELSE [satisfied |-> sat,
              certainty |-> IF sat THEN fact.certainty ELSE Zero,
              facts |-> stored, asked |-> asks /\ has_fn, raised |-> FALSE]

\* evaluate_rule going on to the remaining conditions after one has failed
evaluate_rule_without_early_exit(facts, evaluated, has_fn, rule, patient_data, results) ==
    LET conditions == rule.conditions
        loop[i \in 0..Len(conditions)] ==
            IF i = 0
            THEN [returned |-> FALSE, raised |-> FALSE, facts |-> facts,
                  cfs |-> <<>>, asked |-> <<>>]
            ELSE IF loop[i - 1].raised
            THEN loop[i - 1]
            ELSE Only({ [returned |-> loop[i - 1].returned \/ ~r.satisfied,
                         raised |-> r.raised,
                         facts |-> r.facts,
                         cfs |-> Append(loop[i - 1].cfs, r.certainty),
                         asked |-> IF r.asked
                                   THEN Append(loop[i - 1].asked, conditions[i].parameter)
                                   ELSE loop[i - 1].asked] :
                        r \in {evaluate_condition(loop[i - 1].facts, has_fn,
                                                  conditions[i], patient_data,
                                                  results[i])} })
        end == loop[Len(conditions)]
    IN  IF rule.rule_id \in evaluated
        THEN [met |-> FALSE, min_certainty |-> Zero, facts |-> facts, asked |-> <<>>,
              raised |-> FALSE]
        ELSE IF end.returned
        THEN [met |-> FALSE, min_certainty |-> Zero, facts |-> end.facts,
              asked |-> end.asked, raised |-> end.raised]
        ELSE [met |-> TRUE,
              min_certainty |-> IF end.cfs = <<>> THEN Zero ELSE RMinSeq(end.cfs),
              facts |-> end.facts, asked |-> end.asked, raised |-> FALSE]

\* MYCINInferenceEngine.evaluate_rule: [met, min_certainty, facts, asked (the
\* parameters asked of the question-answering function, in order), raised
\* (an exception of evaluate_condition leaves the loop and the method)];
\* results[i] is what the question-answering function returns if condition i
\* calls it, and loop[i] is the state of the for loop after condition i
evaluate_rule(facts, evaluated, has_fn, rule, patient_data, results) ==
    LET conditions == rule.conditions
        loop[i \in 0..Len(conditions)] ==
            IF i = 0
            THEN [returned |-> FALSE, raised |-> FALSE, facts |-> facts,
                  cfs |-> <<>>, asked |-> <<>>]
            ELSE IF loop[i - 1].returned
            THEN loop[i - 1]
            ELSE Only({ [returned |-> ~r.satisfied,
                         raised |-> r.raised,
                         facts |-> r.facts,
                         cfs |-> Append(loop[i - 1].cfs, r.certainty),
                         asked |-> IF r.asked
                                   THEN Append(loop[i - 1].asked, conditions[i].parameter)
                                   ELSE loop[i - 1].asked] :
                        r \in {evaluate_condition(loop[i - 1].facts, has_fn,
                                                  conditions[i], patient_data,
                                                  results[i])} })
        end == loop[Len(conditions)]
    IN  IF rule.rule_id \in evaluated
        THEN [met |-> FALSE, min_certainty |-> Zero, facts |-> facts, asked |-> <<>>,
              raised |-> FALSE]
        ELSE IF end.returned
        THEN [met |-> FALSE, min_certainty |-> Zero, facts |-> end.facts,
              asked |-> end.asked, raised |-> end.raised]
        ELSE [met |-> TRUE,
              min_certainty |-> IF end.cfs = <<>> THEN Zero ELSE RMinSeq(end.cfs),
              facts |-> end.facts, asked |-> end.asked, raised |-> FALSE]

\* the loop of apply_rule over rule.conclusion.items(): [facts, raised];
\* a set_fact that raises ends the loop
Conclude(facts, conclusion, cf, rule_id) ==
    LET loop[i \in 0..Len(conclusion)] ==
            IF i = 0
            THEN [facts |-> facts, raised |-> FALSE]
            ELSE IF loop[i - 1].raised
            THEN loop[i - 1]
            ELSE IF set_fact_raises(loop[i - 1].facts, conclusion[i][1],
                                    conclusion[i][2], cf)
            THEN [facts |-> loop[i - 1].facts, raised |-> TRUE]
            ELSE [facts |-> set_fact(loop[i - 1].facts, conclusion[i][1],
                                     conclusion[i][2], cf, rule_id),
                  raised |-> FALSE]
    IN  loop[Len(conclusion)]

\* apply_rule with the conclusion written at the certainty of the conditions
\* alone, the rule's certainty factor left out
apply_rule_unweighted(facts, evaluated, has_fn, rule, patient_data, results) ==
    Only({ IF e.met
           THEN Only({ [applied |-> ~c.raised, facts |-> c.facts,
                        evaluated |-> IF c.raised THEN evaluated
                                      ELSE evaluated \cup {rule.rule_id},
                        asked |-> e.asked, raised |-> c.raised,
                        met |-> TRUE, min_certainty |-> e.min_certainty] :
                       c \in {Conclude(e.facts, rule.conclusion, e.min_certainty,
                                       rule.rule_id)} })
           ELSE [applied |-> FALSE, facts |-> e.facts, evaluated |-> evaluated,
                 asked |-> e.asked, raised |-> e.raised,
                 met |-> FALSE, min_certainty |-> Zero] :
           e \in {evaluate_rule(facts, evaluated, has_fn, rule, patient_data, results)} })

\* MYCINInferenceEngine.apply_rule: [applied (its return value), facts,
\* evaluated, asked, raised (by set_fact when met, by the question-answering
\* function otherwise), met, min_certainty]
apply_rule(facts, evaluated, has_fn, rule, patient_data, results) ==
    Only({ IF e.met
           THEN Only({ [applied |-> ~c.raised, facts |-> c.facts,
                        evaluated |-> IF c.raised THEN evaluated
                                      ELSE evaluated \cup {rule.rule_id},
                        asked |-> e.asked, raised |-> c.raised,
                        met |-> TRUE, min_certainty |-> e.min_certainty] :
                       c \in {Conclude(e.facts, rule.conclusion,
                                       RMul(rule.certainty_factor, e.min_certainty),
                                       rule.rule_id)} })
           ELSE [applied |-> FALSE, facts |-> e.facts, evaluated |-> evaluated,
                 asked |-> e.asked, raised |-> e.raised,
                 met |-> FALSE, min_certainty |-> Zero] :
           e \in {evaluate_rule(facts, evaluated, has_fn, rule, patient_data, results)} })

(***************************************************************************)
(* The inputs of a run                                                     *)
(***************************************************************************)
\* the values a parameter takes in the model
ValuesOf ==
    [gram_stain |-> {"positive", "negative"},
     morphology |-> {"coccus", "rod"},
     growth_pattern |-> {"chains", "clusters"},
     identity |-> {"streptococcus", "e_coli"},
     allergy_penicillin |-> {"True", "False"},
     immunocompromised |-> {"True", "False"},
     recommended_drug |-> {"vancomycin", "penicillin"},
     dose |-> {"standard", "high"},
     treatment_approach |-> {"broad_spectrum", "narrow_spectrum"},
     allergy_exposure |-> {"True", "False"},
     inability_to_breathe |-> {"True", "False"},
     swelling |-> {"True", "False"},
     diagnosis |-> {"Anaphylaxis", "GERD"}]

\* the patient records of the model (parameter -> value, for the parameters
\* the record holds)
PatientDatas ==
    { [p \in {} |-> None],
      [p \in {"allergy_penicillin", "allergy_exposure", "swelling"} |-> "True"],
      [p \in {"identity", "diagnosis"} |->
          IF p = "identity" THEN "streptococcus" ELSE "Anaphylaxis"] }

\* certainties the question-answering function gives
OracleCertainties == {Zero, Rat(1, 10), One}

\* certainties a caller passes to set_fact
CallerCertainties == {One, Rat(-1, 1)}

QAResult(shape, answer, has_certainty, certainty) ==
    [shape |-> shape, answer |-> answer,
     has_certainty |-> has_certainty, certainty |-> certainty]

\* what the question-answering function can return for a condition: unknown,
\* the value the condition expects at any certainty, the value as a dict
\* without a certainty, or the value the condition does not expect
QAResults(condition) ==
    {QAResult("tuple", None, TRUE, Zero)}
    \cup {QAResult("tuple", condition.value, TRUE, c) : c \in OracleCertainties}
    \cup {QAResult("dict", condition.value, FALSE, Zero)}
    \cup {QAResult("plain", v, FALSE, Zero) :
             v \in ValuesOf[condition.parameter] \ {condition.value}}

\* one return value per condition
RECURSIVE ResultsFor(_)
ResultsFor(conditions) ==
    IF conditions = <<>> THEN {<<>>}
    ELSE {<<r>> \o rest : r \in QAResults(Head(conditions)),
                          rest \in ResultsFor(Tail(conditions))}

ResultChoices(rule) == ResultsFor(rule.conditions)

\* bound on the number of calls a caller makes on one engine
MaxCalls == 2

\* forward_chain's default max_iterations
max_iterations == 10

(***************************************************************************)
(* State                                                                   *)
(***************************************************************************)
VARIABLES
    ALL_RULES,          \* the module-level rule list the engine reads
    llm_qa_fn,          \* whether the engine has a question-answering function
    patient_data,       \* the patient record the caller passes
    known_facts,        \* self.known_facts
    evaluated_rules,    \* self.evaluated_rules
    pc,                 \* where forward_chain is: "idle" when not running
    iteration,          \* forward_chain's iteration
    rule_index,         \* position of the for loop in ALL_RULES
    new_rules_applied,  \* forward_chain's new_rules_applied
    applied_rules,      \* forward_chain's applied_rules
    diagnosis,          \* what the last get_diagnosis returned
    calls,              \* number of calls made on the engine
    oracle_calls,       \* parameter -> calls of the question-answering function
    last                \* the last operation and its outcome

vars == <<ALL_RULES, llm_qa_fn, patient_data, known_facts, evaluated_rules, pc,
          iteration, rule_index, new_rules_applied, applied_rules, diagnosis,
          calls, oracle_calls, last>>

Params == DOMAIN ValuesOf

\* the record of an operation
Op(op, rule_id, parameter, value, certainty, met, min_certainty, applied, raised, asked) ==
    [op |-> op, rule_id |-> rule_id, parameter |-> parameter, value |-> value,
     certainty |-> certainty, met |-> met, min_certainty |-> min_certainty,
     applied |-> applied, raised |-> raised, asked |-> asked]

NoOp == Op("none", None, None, None, Zero, FALSE, Zero, FALSE, FALSE, <<>>)

NoDiagnosis ==
    [name |-> None, certainty |-> Zero, all_organisms |-> <<>>,
     probabilities |-> <<>>, returned |-> FALSE, by |-> None]

\* the calls of the question-answering function after asking the parameters asked
Counted(counts, asked) ==
    [p \in Params |-> counts[p] + Cardinality({i \in 1..Len(asked) : asked[i] = p})]

\* __init__: an engine with no facts and no evaluated rules
Init ==
    /\ ALL_RULES \in RuleBases
    /\ llm_qa_fn \in BOOLEAN
    /\ patient_data \in PatientDatas
    /\ known_facts = <<>>
    /\ evaluated_rules = {}
    /\ pc = "idle"
    /\ iteration = 0
    /\ rule_index = 0
    /\ new_rules_applied = FALSE
    /\ applied_rules = <<>>
    /\ diagnosis = NoDiagnosis
    /\ calls = 0
    /\ oracle_calls = [p \in Params |-> 0]
    /\ last = NoOp

\* a caller calls set_fact(parameter, value, certainty, source_rule)
SetFact(parameter, value, certainty, source_rule) ==
    /\ pc = "idle"
    /\ calls < MaxCalls
    /\ calls' = calls + 1
    /\ IF set_fact_raises(known_facts, parameter, value, certainty)
       THEN known_facts' = known_facts
       ELSE known_facts' = set_fact(known_facts, parameter, value, certainty, source_rule)
    /\ last' = Op("set_fact", source_rule, parameter, value, certainty, FALSE, Zero,
                  FALSE, set_fact_raises(known_facts, parameter, value, certainty), <<>>)
    /\ UNCHANGED <<ALL_RULES, llm_qa_fn, patient_data, evaluated_rules, pc, iteration,
                   rule_index, new_rules_applied, applied_rules, diagnosis, oracle_calls>>

\* a caller calls apply_rule(rule, patient_data)
ApplyRule(rule, results) ==
    /\ pc = "idle"
    /\ calls < MaxCalls
    /\ \E a \in {apply_rule(known_facts, evaluated_rules, llm_qa_fn, rule, patient_data,
                            results)} :
        /\ calls' = calls + 1
        /\ known_facts' = a.facts
        /\ evaluated_rules' = a.evaluated
        /\ oracle_calls' = Counted(oracle_calls, a.asked)
        /\ last' = Op("apply_rule", rule.rule_id, None, None, Zero, a.met,
                      a.min_certainty, a.applied, a.raised, a.asked)
        /\ UNCHANGED <<ALL_RULES, llm_qa_fn, patient_data, pc, iteration, rule_index,
                       new_rules_applied, applied_rules, diagnosis>>

\* apply_rule is called on any rule of the list, whatever the
\* question-answering function returns
ApplyAnyRule ==
    /\ pc = "idle"
    /\ calls < MaxCalls
    /\ \E k \in 1..Len(ALL_RULES) :
         \E results \in ResultChoices(ALL_RULES[k]) : ApplyRule(ALL_RULES[k], results)

(***************************************************************************)
(* forward_chain, one step of its loops at a time                          *)
(***************************************************************************)
\* a caller calls forward_chain(patient_data): applied_rules = [], iteration = 0
ForwardChainCall ==
    /\ pc = "idle"
    /\ calls < MaxCalls
    /\ calls' = calls + 1
    /\ pc' = "while"
    /\ iteration' = 0
    /\ applied_rules' = <<>>
    /\ new_rules_applied' = FALSE
    /\ rule_index' = 0
    /\ last' = Op("forward_chain", None, None, None, Zero, FALSE, Zero, FALSE, FALSE, <<>>)
    /\ UNCHANGED <<ALL_RULES, llm_qa_fn, patient_data, known_facts, evaluated_rules,
                   diagnosis, oracle_calls>>

\* the test of the while loop
WhileContinues(i) == i < max_iterations

\* while iteration < max_iterations: iteration += 1; new_rules_applied = False
ForwardChainWhile ==
    /\ pc = "while"
    /\ IF WhileContinues(iteration)
       THEN /\ iteration' = iteration + 1
            /\ new_rules_applied' = FALSE
            /\ rule_index' = 1
            /\ pc' = "for"
       ELSE /\ pc' = "return"
            /\ UNCHANGED <<iteration, new_rules_applied, rule_index>>
    /\ UNCHANGED <<ALL_RULES, llm_qa_fn, patient_data, known_facts, evaluated_rules,
                   applied_rules, diagnosis, calls, oracle_calls, last>>

\* for rule in ALL_RULES: a rule already evaluated is passed over
ForwardChainSkip ==
    /\ pc = "for"
    /\ rule_index <= Len(ALL_RULES)
    /\ ALL_RULES[rule_index].rule_id \in evaluated_rules
    /\ rule_index' = rule_index + 1
    /\ UNCHANGED <<ALL_RULES, llm_qa_fn, patient_data, known_facts, evaluated_rules, pc,
                   iteration, new_rules_applied, applied_rules, diagnosis, calls,
                   oracle_calls, last>>

\* for rule in ALL_RULES: if self.apply_rule(rule, patient_data): ...
\* an exception of apply_rule ends forward_chain
ForwardChainApply(results) ==
    /\ pc = "for"
    /\ rule_index <= Len(ALL_RULES)
    /\ ALL_RULES[rule_index].rule_id \notin evaluated_rules
    /\ \E rule \in {ALL_RULES[rule_index]} :
       \E a \in {apply_rule(known_facts, evaluated_rules, llm_qa_fn, rule, patient_data,
                            results)} :
        /\ known_facts' = a.facts
        /\ evaluated_rules' = a.evaluated
        /\ oracle_calls' = Counted(oracle_calls, a.asked)
        /\ last' = Op("apply_rule", rule.rule_id, None, None, Zero, a.met,
                      a.min_certainty, a.applied, a.raised, a.asked)
        /\ IF a.raised
           THEN /\ pc' = "idle"
                /\ iteration' = 0
                /\ rule_index' = 0
                /\ new_rules_applied' = FALSE
                /\ applied_rules' = <<>>
           ELSE /\ pc' = pc
                /\ iteration' = iteration
                /\ rule_index' = rule_index + 1
                /\ new_rules_applied' = (new_rules_applied \/ a.applied)
                /\ applied_rules' = IF a.applied
                                    THEN Append(applied_rules, rule.rule_id)
                                    ELSE applied_rules
        /\ UNCHANGED <<ALL_RULES, llm_qa_fn, patient_data, diagnosis, calls>>

\* the rule the for loop is at is applied, whatever the
\* question-answering function returns
ForwardChainApplyRule ==
    /\ pc = "for"
    /\ rule_index <= Len(ALL_RULES)
    /\ \E results \in ResultChoices(ALL_RULES[rule_index]) : ForwardChainApply(results)

\* the end of the for loop without its break
ForwardChainEndFor_without_break ==
    /\ pc = "for"
    /\ rule_index > Len(ALL_RULES)
    /\ pc' = "while"
    /\ UNCHANGED <<ALL_RULES, llm_qa_fn, patient_data, known_facts, evaluated_rules,
                   iteration, rule_index, new_rules_applied, applied_rules, diagnosis,
                   calls, oracle_calls, last>>

\* the end of the for loop: if not new_rules_applied: break
ForwardChainEndFor ==
    /\ pc = "for"
    /\ rule_index > Len(ALL_RULES)
    /\ pc' = IF new_rules_applied THEN "while" ELSE "return"
    /\ UNCHANGED <<ALL_RULES, llm_qa_fn, patient_data, known_facts, evaluated_rules,
                   iteration, rule_index, new_rules_applied, applied_rules, diagnosis,
                   calls, oracle_calls, last>>

\* forward_chain returning with the rules it applied taken out of the list
ForwardChainReturn_dropping_applied ==
    /\ pc = "return"
    /\ pc' = "idle"
    /\ last' = Op("forward_chain_return", None, None, None, Zero, FALSE, Zero, FALSE,
                  FALSE, applied_rules)
    /\ iteration' = 0
    /\ rule_index' = 0
    /\ new_rules_applied' = FALSE
    /\ applied_rules' = <<>>
    /\ ALL_RULES' = SelectSeq(ALL_RULES,
                              LAMBDA rule : \A i \in 1..Len(applied_rules) :
                                  applied_rules[i] # rule.rule_id)
    /\ UNCHANGED <<llm_qa_fn, patient_data, known_facts, evaluated_rules,
                   diagnosis, calls, oracle_calls>>

\* return applied_rules; the locals of the call are gone
ForwardChainReturn ==
    /\ pc = "return"
    /\ pc' = "idle"
    /\ last' = Op("forward_chain_return", None, None, None, Zero, FALSE, Zero, FALSE,
                  FALSE, applied_rules)
    /\ iteration' = 0
    /\ rule_index' = 0
    /\ new_rules_applied' = FALSE
    /\ applied_rules' = <<>>
    /\ UNCHANGED <<ALL_RULES, llm_qa_fn, patient_data, known_facts, evaluated_rules,
                   diagnosis, calls, oracle_calls>>

(***************************************************************************)
(* get_diagnosis and reset                                                 *)
(***************************************************************************)
\* {fact.value: fact.certainty} over the facts of a parameter, as items
ItemsFor(facts, parameter) ==
    LET idx == IndexOf(facts, parameter)
    IN  IF idx = 0 THEN <<>> ELSE <<<<facts[idx].value, facts[idx].certainty>>>>

\* max(items, key=certainty): the first item of greatest certainty
MaxItem(items) ==
    items[CHOOSE i \in 1..Len(items) :
            /\ \A j \in 1..Len(items) : RLe(items[j][2], items[i][2])
            /\ \A j \in 1..(i - 1) : RLt(items[j][2], items[i][2])]

\* _normalize_to_probs dividing by the number of entries, not by their total
normalize_to_probs_by_count(certainty_dict) ==
    LET n == Len(certainty_dict)
        positive_cfs == [i \in 1..n |-> RMax(Zero, certainty_dict[i][2])]
        total == RSum(positive_cfs)
    IN  IF n = 0 THEN <<>>
        ELSE IF total = Zero
        THEN [i \in 1..n |-> <<certainty_dict[i][1], Rat(1, n)>>]
        ELSE [i \in 1..n |-> <<certainty_dict[i][1], RDiv(positive_cfs[i], Rat(n, 1))>>]

\* MYCINInferenceEngine._normalize_to_probs on the items of certainty_dict
normalize_to_probs(certainty_dict) ==
    LET n == Len(certainty_dict)
        positive_cfs == [i \in 1..n |-> RMax(Zero, certainty_dict[i][2])]
        total == RSum(positive_cfs)
    IN  IF n = 0 THEN <<>>
        ELSE IF total = Zero
        THEN [i \in 1..n |-> <<certainty_dict[i][1], Rat(1, n)>>]
        ELSE [i \in 1..n |-> <<certainty_dict[i][1], RDiv(positive_cfs[i], total)>>]

\* get_diagnosis from the organisms dict on: the top prediction and the
\* probability distribution
organism_identity(organisms) ==
    LET top_organism == IF organisms # <<>> THEN MaxItem(organisms) ELSE <<None, Zero>>
    IN  [name |-> top_organism[1], certainty |-> top_organism[2],
         all_organisms |-> organisms,
         probabilities |-> normalize_to_probs(organisms),
         returned |-> TRUE, by |-> "get_diagnosis"]

\* MYCINInferenceEngine.get_diagnosis: the organism_identity part of its result
get_diagnosis(facts) == organism_identity(ItemsFor(facts, "identity"))

\* step 5 of the medical pipeline: rule_probs from the diagnosis Facts, each
\* Fact given as (value, certainty)
rule_probs(diagnosis_facts) ==
    LET positive_facts == SelectSeq(diagnosis_facts, LAMBDA f : RLt(Zero, f[2]))
        total_cf == RSum([i \in 1..Len(positive_facts) |-> positive_facts[i][2]])
    IN  IF diagnosis_facts = <<>> \/ positive_facts = <<>>
        THEN <<>>
        ELSE IF RLt(Zero, total_cf)
        THEN [i \in 1..Len(positive_facts) |->
                <<positive_facts[i][1], RDiv(positive_facts[i][2], total_cf)>>]
        ELSE [i \in 1..Len(positive_facts) |->
                <<positive_facts[i][1], Rat(1, Len(positive_facts))>>]

\* a caller calls get_diagnosis()
GetDiagnosis ==
    /\ pc = "idle"
    /\ calls < MaxCalls
    /\ calls' = calls + 1
    /\ diagnosis' = get_diagnosis(known_facts)
    /\ last' = Op("get_diagnosis", None, None, None, Zero, FALSE, Zero, FALSE, FALSE, <<>>)
    /\ UNCHANGED <<ALL_RULES, llm_qa_fn, patient_data, known_facts, evaluated_rules, pc,
                   iteration, rule_index, new_rules_applied, applied_rules, oracle_calls>>

\* reset that leaves self.evaluated_rules as it is
reset_keeping_evaluated_rules(facts, evaluated) ==
    [facts |-> <<>>, evaluated |-> evaluated]

\* MYCINInferenceEngine.reset: self.known_facts.clear();
\* self.evaluated_rules.clear()
reset(facts, evaluated) ==
    [facts |-> <<>>, evaluated |-> {}]

\* a caller calls reset(): a new inference run starts
Reset ==
    /\ pc = "idle"
    /\ calls < MaxCalls
    /\ calls' = calls + 1
    /\ known_facts' = reset(known_facts, evaluated_rules).facts
    /\ evaluated_rules' = reset(known_facts, evaluated_rules).evaluated
    /\ oracle_calls' = [p \in Params |-> 0]
    /\ last' = Op("reset", None, None, None, Zero, FALSE, Zero, FALSE, FALSE, <<>>)
    /\ UNCHANGED <<ALL_RULES, llm_qa_fn, patient_data, pc, iteration, rule_index,
                   new_rules_applied, applied_rules, diagnosis>>

\* the set_fact calls of a caller: the pipeline stores each value of the
\* patient record at certainty 1.0; a caller may also state what it knows
\* of the parameter the first rule concludes
SetFactCalls ==
    {<<p, patient_data[p], One, None>> : p \in DOMAIN patient_data}
    \cup {<<ALL_RULES[1].conclusion[1][1], v, c, None>> :
             v \in ValuesOf[ALL_RULES[1].conclusion[1][1]], c \in CallerCertainties}

Next ==
    \/ \E call \in SetFactCalls : SetFact(call[1], call[2], call[3], call[4])
    \/ ApplyAnyRule
    \/ ForwardChainCall
    \/ ForwardChainWhile
    \/ ForwardChainSkip
    \/ ForwardChainApplyRule
    \/ ForwardChainEndFor
    \/ ForwardChainReturn
    \/ GetDiagnosis
    \/ Reset

Spec == Init /\ [][Next]_vars

(***************************************************************************)
(* C1: termination of forward_chain                                        *)
(***************************************************************************)
\* the number of steps a running forward_chain has left at most
Variant ==
    IF pc = "return" THEN 0
    ELSE (max_iterations - iteration) * (Len(ALL_RULES) + 3)
         + (IF pc = "while" THEN 1 ELSE 1 + (Len(ALL_RULES) + 2 - rule_index))

\* C1: a forward_chain call terminates, whatever the rule list holds (a rule
\* that tests the parameter it concludes, rules that depend on each other)
\* and whatever the question-answering function returns: a running call is
\* at one of the steps of the loop, every step brings it strictly closer to
\* its return (Variant decreases), and it makes at most one pass more than
\* there are rules, each rule being applied at most once in the call.
C1_ForwardChainTerminates ==
    /\ [](pc # "idle" =>
            /\ pc \in {"while", "for", "return"}
            /\ pc = "for" => rule_index \in 1..(Len(ALL_RULES) + 1)
            /\ iteration <= Len(ALL_RULES) + 1
            /\ iteration <= max_iterations
            /\ \A i, j \in 1..Len(applied_rules) :
                  applied_rules[i] = applied_rules[j] => i = j
            /\ (pc = "for" /\ rule_index <= Len(ALL_RULES))
                  => ResultChoices(ALL_RULES[rule_index]) # {}
            /\ Variant >= 0)
    /\ [][pc # "idle" => (pc' = "idle" \/ Variant' < Variant)]_vars

\* a forward_chain over a list with a rule that tests the parameter it
\* concludes is about to return, that rule having fired
C1_Witness ==
    /\ pc = "return"
    /\ \E k \in 1..Len(ALL_RULES) :
          /\ \E j \in 1..Len(applied_rules) : applied_rules[j] = ALL_RULES[k].rule_id
          /\ \E i \in 1..Len(ALL_RULES[k].conditions) :
                ALL_RULES[k].conditions[i].parameter = ALL_RULES[k].conclusion[1][1]

(***************************************************************************)
(* Steps of apply_rule, as the properties below observe them               *)
(***************************************************************************)
Range(seq) == {seq[i] : i \in 1..Len(seq)}

\* this step is a call of apply_rule on rule: by a caller, or by forward_chain
\* (used inside [][...]_vars, where the step changes the state)
ApplyStep(rule) ==
    \/ /\ pc = "idle"
       /\ calls' = calls + 1
       /\ last'.op = "apply_rule"
       /\ last'.rule_id = rule.rule_id
    \/ /\ pc = "for"
       /\ rule_index <= Len(ALL_RULES)
       /\ ALL_RULES[rule_index] = rule
       /\ rule.rule_id \notin evaluated_rules

\* the Facts of the store for a (parameter, value) pair
FactsFor(facts, parameter, value) ==
    SelectSeq(facts, LAMBDA f : f.parameter = parameter /\ f.value = value)

\* the Facts of the store for the conclusion pairs of a rule
ConclusionFacts(facts, rule) ==
    [i \in 1..Len(rule.conclusion) |->
        FactsFor(facts, rule.conclusion[i][1], rule.conclusion[i][2])]

\* the firing threshold of the MYCIN convention
FiringThreshold == Rat(2, 10)

\* the certainty at which a condition of a rule that fired was satisfied, read
\* from the store and the patient record: the Fact the store held before the
\* step, else the record's value at 1.0, else the answer the step stored
ConditionCertainty(condition) ==
    IF IndexOf(known_facts, condition.parameter) # 0
    THEN known_facts[IndexOf(known_facts, condition.parameter)].certainty
    ELSE IF condition.parameter \in DOMAIN patient_data
    THEN One
    ELSE known_facts'[IndexOf(known_facts', condition.parameter)].certainty

MinConditionCertainty(rule) ==
    RMinSeq([i \in 1..Len(rule.conditions) |-> ConditionCertainty(rule.conditions[i])])

(***************************************************************************)
(* C2                                                                      *)
(***************************************************************************)
\* C2: a rule one of whose conditions has a certainty <= 0.2 never fires: a
\* call of apply_rule that found its conditions met at a minimum certainty
\* <= 0.2 leaves the Facts of the rule's conclusion pairs as they were.
C2_BelowThresholdNeverFires ==
    [][\A rule \in Range(ALL_RULES) :
          (/\ ApplyStep(rule)
           /\ last'.met
           /\ RLe(last'.min_certainty, FiringThreshold))
          => ConclusionFacts(known_facts', rule) = ConclusionFacts(known_facts, rule)]_vars

(***************************************************************************)
(* C3                                                                      *)
(***************************************************************************)
\* C3: a rule all of whose conditions pass writes, for each pair of its
\* conclusion, the certainty (minimum certainty of its conditions) *
\* certainty_factor: when the store holds no Fact for the parameters it
\* concludes, the call adds exactly one Fact per conclusion pair, with that
\* certainty and the rule id as provenance (0.8 for a rule of factor 0.8
\* whose conditions all hold at 1.0).
C3_RuleWritesWeightedMinimum ==
    [][\A rule \in Range(ALL_RULES) :
          (/\ ApplyStep(rule)
           /\ last'.applied
           /\ \A i \in 1..Len(rule.conclusion) :
                 /\ IndexOf(known_facts, rule.conclusion[i][1]) = 0
                 /\ rule.conclusion[i][1] \notin Range(last'.asked))
          => /\ \A i \in 1..Len(rule.conclusion) :
                   FactsFor(known_facts', rule.conclusion[i][1], rule.conclusion[i][2])
                     = <<Fact(rule.conclusion[i][1], rule.conclusion[i][2],
                              RMul(MinConditionCertainty(rule), rule.certainty_factor),
                              <<rule.rule_id>>)>>
             /\ Len(known_facts') =
                   Len(known_facts) + Len(last'.asked) + Len(rule.conclusion)
             /\ (MinConditionCertainty(rule) = One
                    /\ rule.certainty_factor = STRONG_SUGGESTIVE
                    /\ Len(rule.conclusion) = 1)
                => known_facts'[IndexOf(known_facts', rule.conclusion[1][1])].certainty
                     = Rat(8, 10)]_vars

\* ANAPHYL003 (factor 0.8) fired with both conditions at 1.0 on a store with
\* no Fact for the diagnosis, which now holds it at 0.8
C3_Witness ==
    /\ last.op = "apply_rule"
    /\ last.rule_id = "ANAPHYL003"
    /\ last.applied
    /\ last.min_certainty = One
    /\ FactsFor(known_facts, "diagnosis", "Anaphylaxis")
         = <<Fact("diagnosis", "Anaphylaxis", Rat(8, 10), <<"ANAPHYL003">>)>>

(***************************************************************************)
(* C4                                                                      *)
(***************************************************************************)
\* C4: a rule that concludes a (parameter, value) pair the store already
\* holds from another rule adds no second Fact: the one Fact of the pair
\* gets the combination of the old certainty and the rule's contribution,
\* and the rule id is appended to its provenance.  Contributions of 0.8 and
\* 0.7 merge to 0.94 in either order.
C4_SamePairMerges ==
    /\ [][\A rule \in Range(ALL_RULES) :
            \A i \in 1..Len(rule.conclusion) :
               LET parameter == rule.conclusion[i][1]
                   value == rule.conclusion[i][2]
                   old == FactsFor(known_facts, parameter, value)
                   new == FactsFor(known_facts', parameter, value)
               IN  (/\ ApplyStep(rule)
                    /\ last'.applied
                    /\ parameter \notin Range(last'.asked)
                    /\ Len(old) = 1)
                   => /\ Len(new) = 1
                      /\ new[1].certainty =
                           combine_certainties(old[1].certainty,
                               RMul(MinConditionCertainty(rule), rule.certainty_factor))
                      /\ new[1].source_rules = old[1].source_rules \o <<rule.rule_id>>]_vars
    /\ [](/\ set_fact(set_fact(<<>>, "diagnosis", "Anaphylaxis", Rat(8, 10), "ANAPHYL003"),
                      "diagnosis", "Anaphylaxis", Rat(7, 10), "DYNAMIC1")
               = <<Fact("diagnosis", "Anaphylaxis", Rat(94, 100), <<"ANAPHYL003", "DYNAMIC1">>)>>
          /\ set_fact(set_fact(<<>>, "diagnosis", "Anaphylaxis", Rat(7, 10), "DYNAMIC1"),
                      "diagnosis", "Anaphylaxis", Rat(8, 10), "ANAPHYL003")
               = <<Fact("diagnosis", "Anaphylaxis", Rat(94, 100), <<"DYNAMIC1", "ANAPHYL003">>)>>)

\* ANAPHYL003 at 0.8, then DYNAMIC1 at 0.7, merged into one Fact at 0.94
C4_Witness ==
    /\ last.op = "apply_rule"
    /\ last.rule_id = "DYNAMIC1"
    /\ last.applied
    /\ FactsFor(known_facts, "diagnosis", "Anaphylaxis")
         = <<Fact("diagnosis", "Anaphylaxis", Rat(94, 100), <<"ANAPHYL003", "DYNAMIC1">>)>>

(***************************************************************************)
(* C6                                                                      *)
(***************************************************************************)
\* C6: the oracle is asked at most once per parameter, an absent answer
\* included, between two resets of the engine.
C6_OracleAskedAtMostOnce ==
    \A parameter \in Params : oracle_calls[parameter] <= 1

(***************************************************************************)
(* C7                                                                      *)
(***************************************************************************)
\* C7: a parameter that a condition needs, that the store does not hold and
\* that the patient record gives, becomes a Fact of the store with the
\* record's value, certainty 1.0 and provenance "user_input", and the oracle
\* is not asked for it.
C7_ContextValueBecomesFact ==
    [][\A rule \in Range(ALL_RULES) :
          LET parameter == rule.conditions[1].parameter
          IN  (/\ ApplyStep(rule)
               /\ rule.rule_id \notin evaluated_rules
               /\ IndexOf(known_facts, parameter) = 0
               /\ parameter \in DOMAIN patient_data)
              => /\ oracle_calls'[parameter] = oracle_calls[parameter]
                 /\ FactsFor(known_facts', parameter, patient_data[parameter])
                      = <<Fact(parameter, patient_data[parameter], One, <<"user_input">>)>>]_vars

(***************************************************************************)
(* C8                                                                      *)
(***************************************************************************)
\* C8: the store never holds two Facts for one (parameter, value) pair.
C8_OneFactPerPair ==
    \A i, j \in 1..Len(known_facts) :
        (/\ known_facts[i].parameter = known_facts[j].parameter
         /\ known_facts[i].value = known_facts[j].value)
        => i = j

\* a second update of a pair has been merged into the Fact of the first
C8_Witness ==
    \E i \in 1..Len(known_facts) :
        /\ Len(known_facts[i].source_rules) = 2
        /\ known_facts[i].source_rules[1] # known_facts[i].source_rules[2]

(***************************************************************************)
(* The normalisation of certainties to probabilities as a function of its  *)
(* input: _normalize_to_probs is a static method and takes any dict, the   *)
(* pipeline normalises any list of diagnosis Facts.  The input is held in  *)
(* diagnosis.all_organisms.                                                *)
(***************************************************************************)
\* bound on the number of values of the dict that is normalised
MaxOrganisms == 3

Organisms == {"streptococcus", "staphylococcus", "e_coli"}

\* certainties of the entries: the certainty factors of the rule bases
\* (CertaintyFactor), 0.0, 1.0 and the sum of two of them
EntryCertainties == {Rat(-5, 10), Zero, Rat(2, 10), Rat(7, 10), Rat(8, 10), One, Rat(15, 10)}

\* the dicts value -> certainty of at most MaxOrganisms entries, as items
CertaintyDicts ==
    UNION {{d \in [1..n -> Organisms \X EntryCertainties] :
               \A i, j \in 1..n : d[i][1] = d[j][1] => i = j} : n \in 0..MaxOrganisms}

NormInit ==
    /\ ALL_RULES = <<R201, R301>>
    /\ llm_qa_fn = FALSE
    /\ patient_data = Only({pd \in PatientDatas : DOMAIN pd = {}})
    /\ known_facts = <<>>
    /\ evaluated_rules = {}
    /\ pc = "idle"
    /\ iteration = 0
    /\ rule_index = 0
    /\ new_rules_applied = FALSE
    /\ applied_rules = <<>>
    /\ \E d \in CertaintyDicts : diagnosis = [NoDiagnosis EXCEPT !.all_organisms = d]
    /\ calls = 0
    /\ oracle_calls = [p \in Params |-> 0]
    /\ last = NoOp

\* get_diagnosis from its organisms dict on
NormalizeToProbs ==
    /\ ~diagnosis.returned
    /\ diagnosis' = organism_identity(diagnosis.all_organisms)
    /\ UNCHANGED <<ALL_RULES, llm_qa_fn, patient_data, known_facts, evaluated_rules, pc,
                   iteration, rule_index, new_rules_applied, applied_rules, calls,
                   oracle_calls, last>>

\* step 5 of the pipeline from its diagnosis_facts on
RuleProbs ==
    /\ ~diagnosis.returned
    /\ diagnosis' = [diagnosis EXCEPT !.probabilities = rule_probs(diagnosis.all_organisms),
                                      !.returned = TRUE,
                                      !.by = "pipeline"]
    /\ UNCHANGED <<ALL_RULES, llm_qa_fn, patient_data, known_facts, evaluated_rules, pc,
                   iteration, rule_index, new_rules_applied, applied_rules, calls,
                   oracle_calls, last>>

NormNext ==
    \/ NormalizeToProbs
    \/ RuleProbs

NormSpec == NormInit /\ [][NormNext]_vars

\* the certainties > 0 of a dict
PositiveCertainties(certainty_dict) ==
    LET positive == SelectSeq(certainty_dict, LAMBDA item : RLt(Zero, item[2]))
    IN  [i \in 1..Len(positive) |-> positive[i][2]]

\* the probabilities given to a value: one per entry of the result for it
ProbabilitiesOf(probabilities, value) ==
    LET entries == SelectSeq(probabilities, LAMBDA item : item[1] = value)
    IN  [i \in 1..Len(entries) |-> entries[i][2]]

(***************************************************************************)
(* C9                                                                      *)
(***************************************************************************)
\* C9: when at least one value has a certainty > 0, the probabilities that
\* get_diagnosis and the pipeline return sum to 1, each lies in [0, 1], and
\* a value of certainty > 0 has probability certainty / (sum of the
\* certainties > 0).
C9_ProbabilitiesNormalised ==
    (diagnosis.returned /\ PositiveCertainties(diagnosis.all_organisms) # <<>>)
    => /\ RSum([i \in 1..Len(diagnosis.probabilities) |-> diagnosis.probabilities[i][2]]) = One
       /\ \A i \in 1..Len(diagnosis.probabilities) :
             /\ RLe(Zero, diagnosis.probabilities[i][2])
             /\ RLe(diagnosis.probabilities[i][2], One)
       /\ \A i \in 1..Len(diagnosis.all_organisms) :
             RLt(Zero, diagnosis.all_organisms[i][2])
             => ProbabilitiesOf(diagnosis.probabilities, diagnosis.all_organisms[i][1])
                  = <<RDiv(diagnosis.all_organisms[i][2],
                           RSum(PositiveCertainties(diagnosis.all_organisms)))>>

\* get_diagnosis normalised 0.7, 0.8 and a negative certainty to 7/15, 8/15, 0
C9_Witness ==
    /\ diagnosis.returned
    /\ diagnosis.by = "get_diagnosis"
    /\ diagnosis.all_organisms = <<<<"streptococcus", Rat(7, 10)>>,
                                   <<"staphylococcus", Rat(-5, 10)>>,
                                   <<"e_coli", Rat(8, 10)>>>>
    /\ diagnosis.probabilities = <<<<"streptococcus", Rat(7, 15)>>,
                                   <<"staphylococcus", Zero>>,
                                   <<"e_coli", Rat(8, 15)>>>>

(***************************************************************************)
(* C10                                                                     *)
(***************************************************************************)
\* C10: get_diagnosis returns no probability when no value has a certainty
\* > 0, and a value of certainty <= 0 never gets a probability.
C10_NonPositiveGetsNoProbability ==
    diagnosis.returned
    => /\ PositiveCertainties(diagnosis.all_organisms) = <<>>
             => diagnosis.probabilities = <<>>
       /\ \A i \in 1..Len(diagnosis.all_organisms) :
             RLe(diagnosis.all_organisms[i][2], Zero)
             => ProbabilitiesOf(diagnosis.probabilities, diagnosis.all_organisms[i][1]) = <<>>

(***************************************************************************)
(* The backward-chaining engine.  test_mycin_backward and the medical      *)
(* pipeline call backward_chain, update_fact and get_facts on an engine    *)
(* whose module is not among the sources; it is modelled from the          *)
(* specification's sections 4.1, 4.3, 4.4 and 4.5.  Its Fact Store is      *)
(* held in known_facts, one Fact per (parameter, value); a run of          *)
(* backward_chain owns its asked-set and its trace-set.                    *)
(***************************************************************************)
\* section 4.1: combineOr
combineOr(cf1, cf2) ==
    IF RLe(Zero, cf1) /\ RLe(Zero, cf2)
    THEN RSub(RAdd(cf1, cf2), RMul(cf1, cf2))
    ELSE IF RLt(cf1, Zero) /\ RLt(cf2, Zero)
    THEN RAdd(RAdd(cf1, cf2), RMul(cf1, cf2))
    ELSE IF RSub(One, RMin(RAbs(cf1), RAbs(cf2))) = Zero
    THEN Zero
    ELSE RDiv(RAdd(cf1, cf2), RSub(One, RMin(RAbs(cf1), RAbs(cf2))))

\* section 3: the negligibility epsilon
epsilon == Rat(1, 1000)

\* section 4.3: factsFor
factsFor(facts, parameter) ==
    SelectSeq(facts, LAMBDA f : f.parameter = parameter)

\* section 4.3: update
update(facts, parameter, value, certainty, provenance) ==
    IF RLt(RAbs(certainty), epsilon)
    THEN facts
    ELSE IF \E i \in 1..Len(facts) :
               facts[i].parameter = parameter /\ facts[i].value = value
    THEN LET i == CHOOSE k \in 1..Len(facts) :
                     facts[k].parameter = parameter /\ facts[k].value = value
         IN  [facts EXCEPT ![i] = Fact(parameter, value,
                                       combineOr(facts[i].certainty, certainty),
                                       Append(facts[i].source_rules, provenance))]
    ELSE Append(facts, Fact(parameter, value, certainty, <<provenance>>))

\* section 4.2: rulesFor, in declaration order
rulesFor(rules, parameter) ==
    SelectSeq(rules, LAMBDA r : \E i \in 1..Len(r.conclusion) : r.conclusion[i][1] = parameter)

\* section 4.4: evaluateCondition, the matching Facts of certainty > 0
\* folded by combineOr
evaluateCondition(facts, condition) ==
    LET matching == SelectSeq(factsFor(facts, condition.parameter),
                              LAMBDA f : /\ RLt(Zero, f.certainty)
                                         /\ Satisfied(condition.operator, f.value,
                                                      condition.value))
        total[i \in 0..Len(matching)] ==
            IF i = 0 THEN Zero ELSE combineOr(total[i - 1], matching[i].certainty)
    IN  total[Len(matching)]

\* the parameters asked before rules are tried: the keys of QUESTIONS
ASK_FIRST_PARAMETERS ==
    {"gram_stain", "morphology", "growth_pattern", "allergy_penicillin", "immunocompromised"}

\* the state of a run: [facts, asked, trace, calls]; its environment:
\* [rules, context, oracle]
RunState(facts, asked, trace, counts) ==
    [facts |-> facts, asked |-> asked, trace |-> trace, calls |-> counts]

\* section 4.4: askOracle
askOracle(st, parameter, env) ==
    IF parameter \in st.asked
    THEN st
    ELSE IF parameter \in DOMAIN env.context
    THEN [st EXCEPT !.asked = @ \cup {parameter},
                    !.facts = update(@, parameter, env.context[parameter], One,
                                     "user_input")]
    ELSE IF env.oracle[parameter][1] # None
    THEN [st EXCEPT !.asked = @ \cup {parameter},
                    !.calls[parameter] = @ + 1,
                    !.facts = update(@, parameter, env.oracle[parameter][1],
                                     env.oracle[parameter][2], "oracle")]
    ELSE [st EXCEPT !.asked = @ \cup {parameter},
                    !.calls[parameter] = @ + 1]

RECURSIVE resolve(_, _, _)
RECURSIVE applyRules(_, _, _)
RECURSIVE applyRule(_, _, _)
RECURSIVE resolveConditions(_, _, _, _)

\* section 4.4: resolve
resolve(st, parameter, env) ==
    IF parameter \in ASK_FIRST_PARAMETERS
    THEN Only({ applyRules(s, rulesFor(env.rules, parameter), env) :
                s \in {askOracle(st, parameter, env)} })
    ELSE Only({ IF factsFor(s.facts, parameter) = <<>>
                THEN askOracle(s, parameter, env)
                ELSE s :
                s \in {applyRules(st, rulesFor(env.rules, parameter), env)} })

\* section 4.4: applyRules over the rules that conclude the parameter
applyRules(st, rules, env) ==
    IF rules = <<>>
    THEN st
    ELSE Only({ applyRules(s, Tail(rules), env) : s \in {applyRule(st, Head(rules), env)} })

\* the loop of applyRule over the conditions: [st, passed, minCf]
resolveConditions(st, conditions, minCf, env) ==
    IF conditions = <<>>
    THEN [st |-> st, passed |-> TRUE, minCf |-> minCf]
    ELSE Only({ Only({ IF RLe(cf, FiringThreshold)
                       THEN [st |-> s, passed |-> FALSE, minCf |-> minCf]
                       ELSE resolveConditions(s, Tail(conditions), RMin(minCf, cf), env) :
                       cf \in {evaluateCondition(s.facts, Head(conditions))} }) :
                s \in {resolve(st, Head(conditions).parameter, env)} })

\* applyRule writing minCf alone, the certainty factor of the rule left out
applyRule_unweighted(st, rule, env) ==
    IF rule.rule_id \in st.trace
    THEN st
    ELSE Only({ IF r.passed
                THEN [r.st EXCEPT
                        !.trace = @ \ {rule.rule_id},
                        !.facts =
                          LET written[i \in 0..Len(rule.conclusion)] ==
                                IF i = 0 THEN r.st.facts
                                ELSE update(written[i - 1], rule.conclusion[i][1],
                                            rule.conclusion[i][2], r.minCf, rule.rule_id)
                          IN  written[Len(rule.conclusion)]]
                ELSE [r.st EXCEPT !.trace = @ \ {rule.rule_id}] :
                r \in {resolveConditions([st EXCEPT !.trace = @ \cup {rule.rule_id}],
                                         rule.conditions, One, env)} })

\* section 4.4: applyRule
applyRule(st, rule, env) ==
    IF rule.rule_id \in st.trace
    THEN st
    ELSE Only({ IF r.passed
                THEN [r.st EXCEPT
                        !.trace = @ \ {rule.rule_id},
                        !.facts =
                          LET written[i \in 0..Len(rule.conclusion)] ==
                                IF i = 0 THEN r.st.facts
                                ELSE update(written[i - 1], rule.conclusion[i][1],
                                            rule.conclusion[i][2],
                                            RMul(r.minCf, rule.certainty_factor),
                                            rule.rule_id)
                          IN  written[Len(rule.conclusion)]]
                ELSE [r.st EXCEPT !.trace = @ \ {rule.rule_id}] :
                r \in {resolveConditions([st EXCEPT !.trace = @ \cup {rule.rule_id}],
                                         rule.conditions, One, env)} })

\* backward_chain(goal, patient_data): a run that resolves the goal, with an
\* asked-set and a trace-set of its own
backward_chain(facts, counts, goal, env) ==
    resolve(RunState(facts, {}, {}, counts), goal, env)

\* section 4.5 and get_diagnosis as test_mycin_backward reads it: the top
\* answer for the goal and the distribution over its Facts of certainty > 0
diagnose(facts, goal) ==
    LET items == [i \in 1..Len(factsFor(facts, goal)) |->
                    <<factsFor(facts, goal)[i].value, factsFor(facts, goal)[i].certainty>>]
        top == IF items # <<>> THEN MaxItem(items) ELSE <<None, Zero>>
    IN  [name |-> top[1], certainty |-> top[2], all_organisms |-> items,
         probabilities |-> rule_probs(items), returned |-> TRUE, by |-> "diagnose"]

\* R050 of mycin_rules: a second rule for the identity
R050 == Rule("R050",
             <<RuleCondition("gram_stain", "is", "positive"),
               RuleCondition("morphology", "is", "coccus"),
               RuleCondition("growth_pattern", "is", "clusters")>>,
             <<<<"identity", "staphylococcus">>>>, SUGGESTIVE)

BCRuleBases == {<<R037>>, <<R037, R050, R201>>}

Goals == {"identity", "recommended_drug"}

\* the contexts of a run: the one of test_mycin_backward, which gives no
\* parameter of the rules, and contexts that give some
BCContexts ==
    {pd \in PatientDatas : DOMAIN pd = {}}
    \cup {[p \in {"gram_stain"} |-> "positive"],
          [p \in {"gram_stain", "morphology"} |->
              IF p = "gram_stain" THEN "positive" ELSE "coccus"]}

\* the parameters the oracle has an answer for
OracleParams == {"gram_stain", "morphology", "growth_pattern", "allergy_penicillin"}

\* the answers of the oracle for a parameter: (value, certainty), absent as
\* (None, 0.0)
OracleAnswers(parameter) ==
    {<<None, Zero>>}
    \cup {<<v, c>> : v \in ValuesOf[parameter], c \in {Rat(2, 10), One}}

\* the oracles: mock_llm_qa of the test is the one that answers positive,
\* coccus, chains at 1.0 and nothing else
Oracles ==
    {[p \in Params |-> IF p \in OracleParams THEN f[p] ELSE <<None, Zero>>] :
        f \in {g \in [OracleParams -> UNION {OracleAnswers(q) : q \in OracleParams}] :
                 \A q \in OracleParams : g[q] \in OracleAnswers(q)}}

BCInit ==
    /\ ALL_RULES \in BCRuleBases
    /\ llm_qa_fn = TRUE
    /\ patient_data \in BCContexts
    /\ known_facts = <<>>
    /\ evaluated_rules = {}
    /\ pc = "idle"
    /\ iteration = 0
    /\ rule_index = 0
    /\ new_rules_applied = FALSE
    /\ applied_rules = <<>>
    /\ diagnosis = NoDiagnosis
    /\ calls = 0
    /\ oracle_calls = [p \in Params |-> 0]
    /\ last = NoOp

\* a caller calls backward_chain(goal, patient_data) on a new engine
BackwardChain(goal, oracle) ==
    /\ calls = 0
    /\ calls' = calls + 1
    /\ \E st \in {backward_chain(known_facts, oracle_calls, goal,
                                 [rules |-> ALL_RULES, context |-> patient_data,
                                  oracle |-> oracle])} :
          /\ known_facts' = st.facts
          /\ oracle_calls' = st.calls
          /\ last' = Op("backward_chain", None, goal, None, Zero, FALSE, Zero, FALSE, FALSE,
                        <<>>)
    /\ UNCHANGED <<ALL_RULES, llm_qa_fn, patient_data, evaluated_rules, pc, iteration,
                   rule_index, new_rules_applied, applied_rules, diagnosis>>

\* the caller reads the diagnosis of the goal of the run
Diagnose ==
    /\ calls = 1
    /\ last.op = "backward_chain"
    /\ calls' = calls + 1
    /\ diagnosis' = diagnose(known_facts, last.parameter)
    /\ UNCHANGED <<ALL_RULES, llm_qa_fn, patient_data, known_facts, evaluated_rules, pc,
                   iteration, rule_index, new_rules_applied, applied_rules, oracle_calls,
                   last>>

BCNext ==
    \/ \E goal \in Goals, oracle \in Oracles : BackwardChain(goal, oracle)
    \/ Diagnose

BCSpec == BCInit /\ [][BCNext]_vars

(***************************************************************************)
(* C5                                                                      *)
(***************************************************************************)
\* the oracle answered every condition of the rule with the value the
\* condition expects at certainty 1.0, the context giving none of them
AnsweredByOracle(rule) ==
    \A i \in 1..Len(rule.conditions) :
        /\ rule.conditions[i].parameter \notin DOMAIN patient_data
        /\ factsFor(known_facts, rule.conditions[i].parameter)
             = <<Fact(rule.conditions[i].parameter, rule.conditions[i].value, One,
                      <<"oracle">>)>>

GridSteps == 10

CertaintyGrid == {Rat(k, GridSteps) : k \in (0 - GridSteps)..GridSteps}

CombInit ==
    /\ ALL_RULES = <<R201, R301>>
    /\ llm_qa_fn = FALSE
    /\ patient_data = Only({pd \in PatientDatas : DOMAIN pd = {}})
    /\ known_facts = <<>>
    /\ evaluated_rules = {}
    /\ pc = "idle"
    /\ iteration = 0
    /\ rule_index = 0
    /\ new_rules_applied = FALSE
    /\ applied_rules = <<>>
    /\ diagnosis = NoDiagnosis
    /\ calls = 0
    /\ oracle_calls = [p \in Params |-> 0]
    /\ last = NoOp

\* a caller calls set_fact("identity", "streptococcus", certainty)
SetFactOnGrid ==
    \E certainty \in CertaintyGrid : SetFact("identity", "streptococcus", certainty, None)

CombNext ==
    \/ SetFactOnGrid

CombSpec == CombInit /\ [][CombNext]_vars

\* this step is a set_fact on the pair the store holds: cf1 is the
\* certainty of the Fact before the step, cf2 the one of the call
CombineStep ==
    /\ Len(known_facts) = 1
    /\ calls' = calls + 1
    /\ last'.op = "set_fact"

(***************************************************************************)
(* C11                                                                     *)
(***************************************************************************)
\* C11: for every cf1, cf2 of [-1, 1], combine_certainties(cf1, cf2) returns
\* the value of the specified combineOr(cf1, cf2).
C11_CombineRefinesCombineOr ==
    [][CombineStep
       => /\ ~last'.raised
          /\ known_facts'[1].certainty
               = combineOr(known_facts[1].certainty, last'.certainty)]_vars

C13_ZeroIsIdentity ==
    [][CombineStep
       => /\ last'.certainty = Zero
               => (~last'.raised /\ known_facts'[1].certainty = known_facts[1].certainty)
          /\ known_facts[1].certainty = Zero
               => (~last'.raised /\ known_facts'[1].certainty = last'.certainty)]_vars

\* evidence of certainty 0 was merged into a Fact of certainty -1
C13_Witness ==
    /\ last.op = "set_fact"
    /\ last.certainty = Zero
    /\ calls = 2
    /\ known_facts = <<Fact("identity", "streptococcus", Rat(-1, 1), <<>>)>>

(***************************************************************************)
(* C14                                                                     *)
(***************************************************************************)
\* C14: combine_certainties is closed on [-1, 1]: for cf1, cf2 of [-1, 1]
\* it returns a value of [-1, 1], and 1 for (1, 1), -1 for (-1, -1).
C14_CombineClosed ==
    [][CombineStep
       => /\ ~last'.raised
          /\ RLe(Rat(-1, 1), known_facts'[1].certainty)
          /\ RLe(known_facts'[1].certainty, One)
          /\ (known_facts[1].certainty = One /\ last'.certainty = One)
               => known_facts'[1].certainty = One
          /\ (known_facts[1].certainty = Rat(-1, 1) /\ last'.certainty = Rat(-1, 1))
               => known_facts'[1].certainty = Rat(-1, 1)]_vars

(***************************************************************************)
(* C15                                                                     *)
(***************************************************************************)
\* C15: combining 1 with -1, in either order, raises no error and gives 0.
C15_DegenerateCaseClampedToZero ==
    [][(/\ CombineStep
        /\ \/ known_facts[1].certainty = One /\ last'.certainty = Rat(-1, 1)
           \/ known_facts[1].certainty = Rat(-1, 1) /\ last'.certainty = One)
       => /\ ~last'.raised
          /\ known_facts'[1].certainty = Zero]_vars

(***************************************************************************)
(* C16                                                                     *)
(***************************************************************************)
\* C16: a set_fact whose certainty is below epsilon in magnitude changes
\* nothing: it creates no Fact and leaves every Fact's certainty and
\* source_rules as they were.
C16_NegligibleUpdateIsNoOp ==
    [][(/\ calls' = calls + 1
        /\ last'.op = "set_fact"
        /\ RLt(RAbs(last'.certainty), epsilon))
       => known_facts' = known_facts]_vars

(***************************************************************************)
(* C17: rule lists with a repeated rule_id                                 *)
(***************************************************************************)
\* a rule the pipeline builds from generated rule data that carries the
\* rule_id of a static rule
DYNAMIC_ANAPHYL003 ==
    Rule("ANAPHYL003",
         <<RuleCondition("swelling", "is", "True")>>,
         <<<<"diagnosis", "GERD">>>>, Rat(1, 2))

\* the pipeline's augmented_rules: the copy of the static list with the
\* generated rule appended, whatever its rule_id
augmented_rules(static_rules, dynamic_rule) == Append(static_rules, dynamic_rule)

\* the rule lists the pipeline patches into the engine's ALL_RULES when the
\* generated rule reuses a static rule_id
DupRuleBases == {augmented_rules(<<ANAPHYL003>>, DYNAMIC_ANAPHYL003)}

\* an engine constructed over such a list
DupInit ==
    /\ ALL_RULES \in DupRuleBases
    /\ llm_qa_fn \in BOOLEAN
    /\ patient_data \in PatientDatas
    /\ known_facts = <<>>
    /\ evaluated_rules = {}
    /\ pc = "idle"
    /\ iteration = 0
    /\ rule_index = 0
    /\ new_rules_applied = FALSE
    /\ applied_rules = <<>>
    /\ diagnosis = NoDiagnosis
    /\ calls = 0
    /\ oracle_calls = [p \in Params |-> 0]
    /\ last = NoOp

DupSpec == DupInit /\ [][Next]_vars

\* no two rules of the list have the same rule_id
UniqueRuleIds(rules) ==
    \A i, j \in 1..Len(rules) : rules[i].rule_id = rules[j].rule_id => i = j

\* C17: a rule list in which two rules share a rule_id is rejected before any
\* inference step: no apply_rule call and no forward_chain ever runs over
\* such a list.
C17_DuplicateRuleIdsRejected ==
    (pc # "idle" \/ last.op \in {"apply_rule", "forward_chain_return"})
        => UniqueRuleIds(ALL_RULES)

(***************************************************************************)
(* C18: a question-answering function that raises                          *)
(***************************************************************************)
\* what a call of the question-answering function can do for a condition:
\* return one of the values above, or raise
QAOutcomes(condition) ==
    QAResults(condition) \cup {QAResult("raises", None, FALSE, Zero)}

\* one outcome per condition
RECURSIVE OutcomesFor(_)
OutcomesFor(conditions) ==
    IF conditions = <<>> THEN {<<>>}
    ELSE {<<r>> \o rest : r \in QAOutcomes(Head(conditions)),
                          rest \in OutcomesFor(Tail(conditions))}

OutcomeChoices(rule) == OutcomesFor(rule.conditions)

\* an engine with a question-answering function over part of the static base
RaiseInit ==
    /\ ALL_RULES = <<R201, R301>>
    /\ llm_qa_fn = TRUE
    /\ patient_data \in PatientDatas
    /\ known_facts = <<>>
    /\ evaluated_rules = {}
    /\ pc = "idle"
    /\ iteration = 0
    /\ rule_index = 0
    /\ new_rules_applied = FALSE
    /\ applied_rules = <<>>
    /\ diagnosis = NoDiagnosis
    /\ calls = 0
    /\ oracle_calls = [p \in Params |-> 0]
    /\ last = NoOp

\* apply_rule is called on any rule of the list, whatever the
\* question-answering function does
ApplyAnyRuleOracleMayRaise ==
    /\ pc = "idle"
    /\ calls < MaxCalls
    /\ \E k \in 1..Len(ALL_RULES) :
         \E results \in OutcomeChoices(ALL_RULES[k]) : ApplyRule(ALL_RULES[k], results)

\* the rule the for loop is at is applied, whatever the
\* question-answering function does
ForwardChainApplyRuleOracleMayRaise ==
    /\ pc = "for"
    /\ rule_index <= Len(ALL_RULES)
    /\ \E results \in OutcomeChoices(ALL_RULES[rule_index]) : ForwardChainApply(results)

RaiseNext ==
    \/ \E call \in SetFactCalls : SetFact(call[1], call[2], call[3], call[4])
    \/ ApplyAnyRuleOracleMayRaise
    \/ ForwardChainCall
    \/ ForwardChainWhile
    \/ ForwardChainSkip
    \/ ForwardChainApplyRuleOracleMayRaise
    \/ ForwardChainEndFor
    \/ ForwardChainReturn
    \/ GetDiagnosis
    \/ Reset

RaiseSpec == RaiseInit /\ [][RaiseNext]_vars

\* C18: an exception of the question-answering function is taken as the
\* answer (None, 0.0): no apply_rule call, alone or within forward_chain, ends
\* with the exception raised to its caller.
C18_OracleExceptionNotPropagated ==
    ~(last.op = "apply_rule" /\ last.raised /\ ~last.met)

(***************************************************************************)
(* C19                                                                     *)
(***************************************************************************)
\* C19: no operation of the engine changes the rule list: apply_rule (with
\* evaluate_rule and evaluate_condition), every step of forward_chain,
\* get_diagnosis, set_fact and reset leave ALL_RULES, its order and the
\* conditions, conclusion and certainty_factor of every rule as they were.
C19_RuleBaseUnchanged == [][ALL_RULES' = ALL_RULES]_vars

\* forward_chain has returned after applying a rule
C19_Witness ==
    /\ last.op = "forward_chain_return"
    /\ last.asked # <<>>
    /\ known_facts # <<>>

(***************************************************************************)
(* C20: one engine used for several runs, reset in between                 *)
(***************************************************************************)
\* a caller calls reset() after the calls of a run and starts the next run:
\* the calls of the next run are counted from 0
ResetBetweenRuns ==
    /\ pc = "idle"
    /\ calls > 0
    /\ calls' = 0
    /\ known_facts' = reset(known_facts, evaluated_rules).facts
    /\ evaluated_rules' = reset(known_facts, evaluated_rules).evaluated
    /\ oracle_calls' = [p \in Params |-> 0]
    /\ last' = Op("reset", None, None, None, Zero, FALSE, Zero, FALSE, FALSE, <<>>)
    /\ UNCHANGED <<ALL_RULES, llm_qa_fn, patient_data, pc, iteration, rule_index,
                   new_rules_applied, applied_rules, diagnosis>>

RunsNext ==
    \/ \E call \in SetFactCalls : SetFact(call[1], call[2], call[3], call[4])
    \/ ApplyAnyRule
    \/ ForwardChainCall
    \/ ForwardChainWhile
    \/ ForwardChainSkip
    \/ ForwardChainApplyRule
    \/ ForwardChainEndFor
    \/ ForwardChainReturn
    \/ GetDiagnosis
    \/ ResetBetweenRuns

\* a freshly constructed engine over part of the static base
RunsInit ==
    /\ ALL_RULES = <<R201, R301>>
    /\ llm_qa_fn \in BOOLEAN
    /\ patient_data \in PatientDatas
    /\ known_facts = <<>>
    /\ evaluated_rules = {}
    /\ pc = "idle"
    /\ iteration = 0
    /\ rule_index = 0
    /\ new_rules_applied = FALSE
    /\ applied_rules = <<>>
    /\ diagnosis = NoDiagnosis
    /\ calls = 0
    /\ oracle_calls = [p \in Params |-> 0]
    /\ last = NoOp

RunsSpec == RunsInit /\ [][RunsNext]_vars

\* the engine is as __init__ leaves it: no Fact, no evaluated rule id, no
\* question asked, no forward_chain under way
FreshEngine ==
    /\ known_facts = <<>>
    /\ evaluated_rules = {}
    /\ oracle_calls = [p \in Params |-> 0]
    /\ pc = "idle"
    /\ iteration = 0
    /\ rule_index = 0
    /\ new_rules_applied = FALSE
    /\ applied_rules = <<>>
    /\ calls = 0

\* C20: runs are independent: after reset the engine is in the state of a
\* freshly constructed engine over the same rule list, question-answering
\* function and patient record, with no Fact, no asked parameter and no
\* evaluated rule id of the earlier run left, so that the run that follows
\* is a run of a fresh engine.
C20_ResetGivesFreshEngine ==
    [][last'.op = "reset"
       => /\ FreshEngine'
          /\ ALL_RULES' = ALL_RULES
          /\ llm_qa_fn' = llm_qa_fn
          /\ patient_data' = patient_data]_vars

\* an earlier run set identity and had it diagnosed; after reset,
\* forward_chain has run again and applied a rule, with the Fact of the
\* earlier run gone
C20_Witness ==
    /\ diagnosis.name = "streptococcus"
    /\ IndexOf(known_facts, "identity") = 0
    /\ last.op = "forward_chain_return"
    /\ last.asked # <<>>

(***************************************************************************)
(* C21                                                                     *)
(***************************************************************************)
\* the rules of a list that conclude a parameter
Concluding(rules, parameter) ==
    {r \in Range(rules) :
        \E i \in 1..Len(r.conclusion) : r.conclusion[i][1] = parameter}

\* C21: a parameter that is not ask-first is asked of the question-answering
\* function only after every rule concluding it has been applied: a call of
\* apply_rule on an engine on which no rule has been applied yet asks for no
\* parameter that a rule of the list concludes.
C21_RulesAppliedBeforeOracle ==
    [][(pc = "idle" /\ calls = 0 /\ last'.op = "apply_rule")
       => \A p \in Range(last'.asked) \ ASK_FIRST_PARAMETERS :
             Concluding(ALL_RULES, p) = {}]_vars

(***************************************************************************)
(* C22                                                                     *)
(***************************************************************************)
\* a condition of the rule a step applies has failed: on the Fact the store
\* held before the step, else on the patient record's value, else on what the
\* question-answering function answered in the step (nothing, or a value the
\* step stored)
FailsAt(condition) ==
    LET p == condition.parameter
    IN  IF IndexOf(known_facts, p) # 0
        THEN ~Satisfied(condition.operator,
                        known_facts[IndexOf(known_facts, p)].value, condition.value)
        ELSE IF p \in DOMAIN patient_data
        THEN ~Satisfied(condition.operator, patient_data[p], condition.value)
        ELSE /\ p \in Range(last'.asked)
             /\ \/ IndexOf(known_facts', p) = 0
                \/ ~Satisfied(condition.operator,
                              known_facts'[IndexOf(known_facts', p)].value,
                              condition.value)

C23_TraceSetScopedToActivePath ==
    /\ [][\A rule \in Range(ALL_RULES) :
             ApplyStep(rule) => evaluated_rules' = evaluated_rules]_vars
    /\ [](pc \in {"idle", "return"} => evaluated_rules = {})

\* C24: a rule that has fired is not blocked for the rest of the run: when
\* apply_rule is called on it again with its conditions satisfied by the
\* Facts of the store, it is evaluated and fires again.
C24_FiredRuleCanFireAgain ==
    [][\A rule \in Range(ALL_RULES) :
          (/\ pc = "idle"
           /\ calls' = calls + 1
           /\ last'.op = "apply_rule"
           /\ last'.rule_id = rule.rule_id
           /\ rule.rule_id \in evaluated_rules
           /\ \A i \in 1..Len(rule.conditions) :
                 /\ IndexOf(known_facts, rule.conditions[i].parameter) # 0
                 /\ ~FailsAt(rule.conditions[i]))
          => last'.applied]_vars

(***************************************************************************)
(* C25                                                                     *)
(***************************************************************************)
\* C25: a Fact of zero or negative certainty satisfies no condition, whatever
\* the operator: a call of apply_rule that finds the conditions of a rule
\* met finds them met at a certainty > 0, and what a rule writes is > 0.
C25_OnlyPositiveFactsSatisfy ==
    [][\A rule \in Range(ALL_RULES) :
          (ApplyStep(rule) /\ last'.met)
          => /\ RLt(Zero, last'.min_certainty)
             /\ \A i \in 1..Len(rule.conditions) :
                   RLt(Zero, ConditionCertainty(rule.conditions[i]))]_vars

(***************************************************************************)
(* C26: conditions with numeric and unknown operators                      *)
(***************************************************************************)
\* the operators a condition can carry: the closed set, and one outside it
Operators == {"is", "is_not", "between"} \cup NumericOperators

\* values of a Fact and of a condition: booleans, a number, a string that is
\* no number, None, and an int too large for a float
CondValues == {"True", "False", "two", "high", None} \cup HugeInts

\* a rule with one condition on swelling
NUM1(operator, value) ==
    Rule("NUM1", <<RuleCondition("swelling", operator, value)>>,
         <<<<"diagnosis", "Anaphylaxis">>>>, SUGGESTIVE)

\* an engine that holds a Fact for swelling, and a rule testing it
CondInit ==
    /\ \E operator \in Operators, value \in CondValues \ {None} :
          ALL_RULES = <<NUM1(operator, value)>>
    /\ llm_qa_fn = FALSE
    /\ patient_data = [p \in {} |-> None]
    /\ \E actual_value \in CondValues :
          known_facts = <<Fact("swelling", actual_value, One, <<>>)>>
    /\ evaluated_rules = {}
    /\ pc = "idle"
    /\ iteration = 0
    /\ rule_index = 0
    /\ new_rules_applied = FALSE
    /\ applied_rules = <<>>
    /\ diagnosis = NoDiagnosis
    /\ calls = 0
    /\ oracle_calls = [p \in Params |-> 0]
    /\ last = NoOp

CondNext ==
    \/ ApplyAnyRule

CondSpec == CondInit /\ [][CondNext]_vars

\* C26: with a numeric operator, a Fact value or a condition value that is
\* no number makes the condition a non-match and raises nothing; so does an
\* operator outside the closed set.
C26_CoercionFailureIsNonMatch ==
    [][(/\ pc = "idle"
        /\ last'.op = "apply_rule"
        /\ LET cond == ALL_RULES[1].conditions[1]
           IN  \/ cond.operator = "between"
               \/ /\ cond.operator \in NumericOperators
                  /\ \/ ~CanFloat(known_facts[1].value)
                     \/ ~CanFloat(cond.value))
       => /\ ~last'.raised
          /\ ~last'.met
          /\ known_facts' = known_facts]_vars

(***************************************************************************)
(* C27                                                                     *)
(***************************************************************************)
\* C27: a set_fact for a parameter with a value the store does not hold for
\* it adds a Fact of that value at the certainty given, and leaves the Facts
\* the store held as they were: none is replaced, none discarded.
C27_ConflictingValueKeepsBoth ==
    [][(/\ calls' = calls + 1
        /\ last'.op = "set_fact"
        /\ FactsFor(known_facts, last'.parameter, last'.value) = <<>>)
       => /\ \A i \in 1..Len(known_facts) :
                \E j \in 1..Len(known_facts') : known_facts'[j] = known_facts[i]
          /\ \E j \in 1..Len(known_facts') :
                known_facts'[j] =
                    Fact(last'.parameter, last'.value, last'.certainty, <<>>)]_vars

(***************************************************************************)
(* C28                                                                     *)
(***************************************************************************)
\* C28: with every rule factor, every answer certainty and every certainty
\* a caller gives in [-1, 1], every Fact of the store has a certainty in
\* [-1, 1] in every reachable state, after any merges and rule firings.
C28_CertaintiesStayInRange ==
    \A i \in 1..Len(known_facts) :
        /\ RLe(Rat(-1, 1), known_facts[i].certainty)
        /\ RLe(known_facts[i].certainty, One)

\* three rules have been merged into one Fact, whose certainty is short of 1
C28_Witness ==
    \E i \in 1..Len(known_facts) :
        /\ Len(known_facts[i].source_rules) = 3
        /\ RLt(Rat(9, 10), known_facts[i].certainty)
        /\ RLt(known_facts[i].certainty, One)

(***************************************************************************)
(* C29: a rule without conditions                                          *)
(***************************************************************************)
\* a rule with an empty condition list, as the pipeline builds one from
\* generated rule data without conditions
DYNAMIC0 == Rule("DYNAMIC0", <<>>, <<<<"diagnosis", "GERD">>>>, Rat(1, 2))

\* an engine over a list that holds such a rule
EmptyInit ==
    /\ ALL_RULES = augmented_rules(<<ANAPHYL003>>, DYNAMIC0)
    /\ llm_qa_fn \in BOOLEAN
    /\ patient_data \in PatientDatas
    /\ known_facts = <<>>
    /\ evaluated_rules = {}
    /\ pc = "idle"
    /\ iteration = 0
    /\ rule_index = 0
    /\ new_rules_applied = FALSE
    /\ applied_rules = <<>>
    /\ diagnosis = NoDiagnosis
    /\ calls = 0
    /\ oracle_calls = [p \in Params |-> 0]
    /\ last = NoOp

EmptySpec == EmptyInit /\ [][Next]_vars

\* C29: a rule with no conditions fires when applied, at the condition
\* certainty 1.0: on a store with no Fact for what it concludes it writes
\* each conclusion pair with the certainty rule.certainty_factor.
C29_EmptyConditionsFireAtFactor ==
    [][\A rule \in Range(ALL_RULES) :
          (/\ ApplyStep(rule)
           /\ rule.conditions = <<>>
           /\ \A i \in 1..Len(rule.conclusion) :
                 IndexOf(known_facts, rule.conclusion[i][1]) = 0)
          => /\ last'.applied
             /\ \A i \in 1..Len(rule.conclusion) :
                   FactsFor(known_facts', rule.conclusion[i][1], rule.conclusion[i][2])
                     = <<Fact(rule.conclusion[i][1], rule.conclusion[i][2],
                              rule.certainty_factor, <<rule.rule_id>>)>>]_vars

(***************************************************************************)
(* C30: step 5 of run_mycin_medical_pipeline, patient after patient        *)
(***************************************************************************)
\* the static rule list the pipeline imports
StaticRules == <<ANAPHYL003>>

\* the rules step 3 generates for a patient
DynamicRuleSets == {<<>>, <<DYNAMIC0>>, <<DYNAMIC1>>, <<DYNAMIC2>>, <<DYNAMIC1, DYNAMIC2>>}

\* bound on the number of patients the pipeline is run for
MaxPatients == 5

\* the module-level ALL_RULES of the engine as the import leaves it
PipeInit ==
    /\ ALL_RULES = StaticRules
    /\ llm_qa_fn = TRUE
    /\ patient_data = [p \in {} |-> None]
    /\ known_facts = <<>>
    /\ evaluated_rules = {}
    /\ pc = "idle"
    /\ iteration = 0
    /\ rule_index = 0
    /\ new_rules_applied = FALSE
    /\ applied_rules = <<>>
    /\ diagnosis = NoDiagnosis
    /\ calls = 0
    /\ oracle_calls = [p \in Params |-> 0]
    /\ last = NoOp

\* step 5 for one patient: _orig_rules_ie = mycin_inference_engine.ALL_RULES;
\* mycin_inference_engine.ALL_RULES = augmented_rules; the engine is built
\* and run; the restore is the last statement of the try block, and
\* except Exception: pass follows, so a run that raises skips the restore.
\* The engine is local to the step and dropped at its end.
Step5(mycin_data, dynamic_rules, raises) ==
    /\ calls < MaxPatients
    /\ calls' = calls + 1
    /\ patient_data' = mycin_data
    /\ LET orig_rules_ie == ALL_RULES
           augmented == StaticRules \o dynamic_rules
       IN  ALL_RULES' = IF raises THEN augmented ELSE orig_rules_ie
    /\ last' = Op("step5", None, None, None, Zero, FALSE, Zero, FALSE, raises, <<>>)
    /\ UNCHANGED <<llm_qa_fn, known_facts, evaluated_rules, pc, iteration, rule_index,
                   new_rules_applied, applied_rules, diagnosis, oracle_calls>>

\* the pipeline is run for a patient; the calls on the engine raise or not
RunPatient ==
    \E mycin_data \in PatientDatas, dynamic_rules \in DynamicRuleSets,
       raises \in BOOLEAN :
        Step5(mycin_data, dynamic_rules, raises)

PipeNext ==
    \/ RunPatient

PipeSpec == PipeInit /\ [][PipeNext]_vars

\* C30: step 5 restores the module-level rule list on every exit path, so
\* between two patients, and at the start of every patient's step 5, the
\* list is the static list and holds no patient's dynamic rules.
C30_RulesRestoredOnEveryExitPath == ALL_RULES = StaticRules

====
